---- MODULE Spec2Model ----
\* Model of uni2-parser.py: the reference catalog built at module load
\* (lines 58-72) and the frame scan of __main__ (lines 204-273).
\*
\* Time is counted in ticks of 0.25 s, the value of SEEK_SECS, so that every
\* timing constant of the program is an integer number of ticks:
\* SEEK_SECS = 0.25 s = 1, SKIP_SECS = 10.0 s = 40,
\* ROUND_START_MAX_OFFSET_SECS = 20.0 s = 80.
\* A perceptual hash (imagehash.dhash, 64 bits) is the set of its set bits;
\* the difference of two hashes is the number of bits in which they differ.
EXTENDS Integers, Sequences, FiniteSets

\* --------------------------------------------------------------- bounds
\* duration of the clip, in ticks
MaxSec == 200
\* cap on the length of a VS burst (frames buffered in vs_clip_frame_imgs)
MaxBurst == 3
\* cap on the number of records in potential_matches
MaxMatches == 2
\* number of characters with asset files in data/chars
NumKeys == 2

\* ------------------------------------------------------ program constants
SEEK_SECS == 1
\* mutant: a coarse jump of 25 s, longer than the round-start window
SKIP_SECS_long == 100 * SEEK_SECS
SKIP_SECS == 40
ROUND_START_MAX_OFFSET_SECS == 80
VS_IMAGE_HASH_THRESHOLD == 10
CLAUSE_IMAGE_HASH_THRESHOLD == 20
CHAR_IMAGE_HASH_THRESHOLD == 10

\* Optional[int] = None of the PotentialMatch dataclass
None == -1

\* ------------------------------------------------------------ hashing
\* imagehash.ImageHash.__sub__: the number of differing bits
HashDiff(a, b) == Cardinality((a \ b) \cup (b \ a))

\* dhash of the crop of vs.png / clause.png (fixed assets)
VS_IMAGE_HASH == {}
CLAUSE_IMAGE_HASH == {}

\* Character names, numbered in the lexicographic order of their file names
\* (Python compares the str keys lexicographically).
Keys == 1..NumKeys
\* dhash of the character crop of the asset file of character k
AssetHash(k) == 1..(2 * (k - 1))

\* Hashes a decoded frame can show in each of its four crop regions.
VsRegionHashes == {1..(VS_IMAGE_HASH_THRESHOLD - 1), 1..VS_IMAGE_HASH_THRESHOLD}
ClauseRegionHashes == {{}, 1..(CLAUSE_IMAGE_HASH_THRESHOLD - 1), 1..CLAUSE_IMAGE_HASH_THRESHOLD}
CharRegionHashes == {{1}, 1..(CHAR_IMAGE_HASH_THRESHOLD + 2)}

\* Gaps between the timestamps of successive decoded frames: two of them
\* reach 2 * SKIP_SECS - SEEK_SECS, the last tick inside the round-start
\* window, or 2 * SKIP_SECS, the first tick outside it.
Gaps == {0, SKIP_SECS - SEEK_SECS, SKIP_SECS}

\* Contents of the data directory: the two marker images and, per side, the
\* character names having a "<name>-left.png" / "<name>-right.png" file.
\* Each side has the files of all the characters, or none.
DataDirs ==
    {d \in [vs : BOOLEAN, clause : BOOLEAN, chars : BOOLEAN,
            left : SUBSET Keys, right : SUBSET Keys] :
        /\ ~d.chars => (d.left = {} /\ d.right = {})
        /\ d.left = d.right \/ d.left = {} \/ d.right = {}
        /\ d.left \cup d.right \in {{}, Keys}}

\* ------------------------------------------------------- diagnostic hook
\* args.debug_dir: unset, or a directory path, given as its characters
NoDebugDir == <<>>
DebugDirs == {NoDebugDir, <<"d">>, <<"d", ":">>}

\* lines 223, 265: if args.debug_dir
HookEnabled(dd) == dd # NoDebugDir

\* str.replace(":", "."), applied by both hooks to the whole path of the
\* file they save, the directory part included (lines 107, 116, 125, 136)
ReplaceColons(path) == [i \in 1..Len(path) |-> IF path[i] = ":" THEN "." ELSE path[i]]

\* Image.save opens the file for writing, which raises FileNotFoundError
\* unless the directory part of the path is a directory; lines 173-175 made
\* the directories dd and dd/chars, under the name as given.
SaveRaises(dd) == ReplaceColons(dd) # dd

\* lines 96-126: prints the record and saves three images; the record is
\* only read
run_potential_match_debug(dd, m) == IF SaveRaises(dd) THEN "raised" ELSE "returned"

\* lines 129-137: prints clause_hash_diff and saves the frame
run_round_start_debug(dd, img, m) == IF SaveRaises(dd) THEN "raised" ELSE "returned"

VARIABLES
    pc,                  \* "load", "scan", "done", "aborted", "crashed", "raised"
    debug_dir,           \* args.debug_dir
    debug_calls,         \* how often each diagnostic hook has been called
    dataDir,             \* the asset files on disk
    CHAR_LEFT_HASHES,    \* dict: function from the loaded keys to their hashes
    CHAR_RIGHT_HASHES,
    sec,                 \* timestamp of the frame last yielded by iter_frames
    next_sec,
    last_vs_sec,
    vs_clip_frame_imgs,
    potential_matches,
    vs_img_hash_diff,    \* line 214, of the last step's frame; None if skipped
    branch               \* what the last step did with its frame

vars == <<pc, debug_dir, debug_calls, dataDir, CHAR_LEFT_HASHES, CHAR_RIGHT_HASHES,
          sec, next_sec, last_vs_sec, vs_clip_frame_imgs, potential_matches,
          vs_img_hash_diff, branch>>

scanVars == <<next_sec, last_vs_sec, vs_clip_frame_imgs, potential_matches>>
catalogVars == <<dataDir, CHAR_LEFT_HASHES, CHAR_RIGHT_HASHES>>
debugVars == <<debug_dir, debug_calls>>

\* ------------------------------------------------------------ catalog
\* load_char_hashes: one dict entry per file of the directory with the suffix
load_char_hashes(names) == [k \in names |-> AssetHash(k)]

Init ==
    /\ pc = "load"
    /\ debug_dir \in DebugDirs
    /\ debug_calls = [potential_match |-> 0, round_start |-> 0]
    /\ dataDir \in DataDirs
    /\ CHAR_LEFT_HASHES = <<>>
    /\ CHAR_RIGHT_HASHES = <<>>
    /\ sec = 0
    /\ next_sec = 0
    /\ last_vs_sec = 0
    /\ vs_clip_frame_imgs = <<>>
    /\ potential_matches = <<>>
    /\ vs_img_hash_diff = None
    /\ branch = "none"

\* Module-level construction, lines 58-72: Image.open of a missing marker
\* file and os.listdir of a missing directory raise, which ends the program.
\* A directory without files of a suffix loads as an empty dict.
CatalogLoadable(d) == d.vs /\ d.clause /\ d.chars

LoadFail ==
    /\ pc = "load"
    /\ ~CatalogLoadable(dataDir)
    /\ pc' = "aborted"
    /\ UNCHANGED <<debugVars, catalogVars, sec, scanVars, vs_img_hash_diff, branch>>

LoadCatalog ==
    /\ pc = "load"
    /\ CatalogLoadable(dataDir)
    /\ CHAR_LEFT_HASHES' = load_char_hashes(dataDir.left)
    /\ CHAR_RIGHT_HASHES' = load_char_hashes(dataDir.right)
    /\ pc' = "scan"
    /\ UNCHANGED <<debugVars, dataDir, sec, scanVars, vs_img_hash_diff, branch>>

\* ------------------------------------------------------------ classifier
\* The orders in which a dict can be iterated: its insertion order is the
\* order of os.listdir, which the operating system leaves unspecified.
Enumerations(S) ==
    {q \in [1..Cardinality(S) -> S] : \A i, j \in 1..Cardinality(S) : q[i] = q[j] => i = j}

\* charHashes.items() in the order `order`
items(charHashes, order) == [i \in 1..Len(order) |-> <<order[i], charHashes[order[i]]>>]

\* mutant: the tuples are ordered by their diff alone (sorted(key=diff))
TupleLE_diffOnly(a, b) == a[1] <= b[1]

\* Python's order on the (diff, key) tuples
TupleLE(a, b) == a[1] < b[1] \/ (a[1] = b[1] /\ a[2] <= b[2])

RECURSIVE InsertSorted(_, _)
InsertSorted(s, x) ==
    IF s = <<>> THEN <<x>>
    ELSE IF TupleLE(s[Len(s)], x) THEN Append(s, x)
    ELSE Append(InsertSorted(SubSeq(s, 1, Len(s) - 1), x), s[Len(s)])

\* sorted(): a stable sort
RECURSIVE sorted(_)
sorted(xs) ==
    IF xs = <<>> THEN <<>>
    ELSE InsertSorted(sorted(SubSeq(xs, 1, Len(xs) - 1)), xs[Len(xs)])

\* mutant: entries at or above CHAR_IMAGE_HASH_THRESHOLD are rejected
hash_diffs_thresholded(imgHash, entries) ==
    sorted(SelectSeq([i \in 1..Len(entries) |->
                        <<HashDiff(imgHash, entries[i][2]), entries[i][1]>>],
                     LAMBDA e : e[1] < CHAR_IMAGE_HASH_THRESHOLD))

\* lines 240-243 / 246-249: sorted([(dhash(img) - char_hash, char_key) ...])
hash_diffs(imgHash, entries) ==
    sorted([i \in 1..Len(entries) |-> <<HashDiff(imgHash, entries[i][2]), entries[i][1]>>])

\* ------------------------------------------------------------ scan loop
\* A decoded frame: its timestamp and the dhash of each of its crop regions
\* (the two character regions of a frame show different pictures).
Frames(t) ==
    {f \in [sec : {t}, vs : VsRegionHashes, clause : ClauseRegionHashes,
            left : CharRegionHashes, right : CharRegionHashes] : f.left # f.right}

\* The frames iter_frames can yield next: timestamps never decrease.
NextFrames == UNION {Frames(sec + g) : g \in {h \in Gaps : sec + h <= MaxSec}}

\* clip_frame_to_image; of a buffered image only the character regions are
\* read again; its timestamp and the 0-based index at which it is buffered
\* are kept to tell the buffered frames apart
Image(f) == [sec |-> f.sec, idx |-> Len(vs_clip_frame_imgs), left |-> f.left, right |-> f.right]

\* mutant: the skip test is missing
Skipped_never(t) == FALSE

\* line 210: if sec < next_sec: continue
Skipped(t) == t < next_sec

\* mutant: the window test is not strict
InWindow_inclusive(t) ==
    t - last_vs_sec <= ROUND_START_MAX_OFFSET_SECS /\ potential_matches # <<>>

\* mutant: the window ends after SKIP_SECS
InWindow_short(t) == t - last_vs_sec < SKIP_SECS /\ potential_matches # <<>>

\* mutant: the window is SKIP_SECS longer
InWindow_wide(t) ==
    t - last_vs_sec < ROUND_START_MAX_OFFSET_SECS + SKIP_SECS /\ potential_matches # <<>>

\* line 217
InWindow(t) == t - last_vs_sec < ROUND_START_MAX_OFFSET_SECS /\ potential_matches # <<>>

\* lines 214, 218
VsDiff(f) == HashDiff(f.vs, VS_IMAGE_HASH)
ClauseDiff(f) == HashDiff(f.clause, CLAUSE_IMAGE_HASH)

SkipFrameOn(f) ==
    /\ pc = "scan"
    /\ Skipped(f.sec)
    /\ sec' = f.sec
    /\ vs_img_hash_diff' = None
    /\ branch' = "skip"
    /\ UNCHANGED <<pc, debugVars, catalogVars, scanVars>>

\* potential_matches[-1]
Last(ms) == ms[Len(ms)]

\* mutant: the first record is updated (potential_matches[0])
SetRoundStart_first(ms, t, d) ==
    [ms EXCEPT ![1].round_start_sec = t, ![1].clause_hash_diff = d]

\* mutant: the offset from the VS screen is stored, not the timestamp
SetRoundStart_offset(ms, t, d) ==
    [ms EXCEPT ![Len(ms)].round_start_sec = t - last_vs_sec, ![Len(ms)].clause_hash_diff = d]

\* mutant: clause_hash_diff is not stored
SetRoundStart_secOnly(ms, t, d) ==
    [ms EXCEPT ![Len(ms)].round_start_sec = t]

\* mutant: every record still missing its round start is updated as well
SetRoundStart_allOpen(ms, t, d) ==
    [i \in 1..Len(ms) |->
        IF i = Len(ms) \/ ms[i].round_start_sec = None
        THEN [ms[i] EXCEPT !.round_start_sec = t, !.clause_hash_diff = d]
        ELSE ms[i]]

\* lines 220-221
SetRoundStart(ms, t, d) ==
    [ms EXCEPT ![Len(ms)].round_start_sec = t, ![Len(ms)].clause_hash_diff = d]

\* mutant: the jump ends at the end of the window, however late the frame
JumpTarget_window(t) == last_vs_sec + ROUND_START_MAX_OFFSET_SECS

\* mutant: the jump is SKIP_SECS long, wherever the window ends
JumpTarget_skipOnly(t) == t + SKIP_SECS

\* line 226
JumpTarget(t) ==
    IF last_vs_sec + ROUND_START_MAX_OFFSET_SECS >= t + SKIP_SECS
    THEN last_vs_sec + ROUND_START_MAX_OFFSET_SECS
    ELSE t + SKIP_SECS

\* lines 212-226 with args.debug_dir = dd: what the iteration does to the
\* scan state; an exception of the hook ends the program before line 226
RoundStartScan(f, dd) ==
    /\ pc = "scan"
    /\ ~Skipped(f.sec)
    /\ InWindow(f.sec)
    /\ ClauseDiff(f) < CLAUSE_IMAGE_HASH_THRESHOLD
    /\ sec' = f.sec
    /\ vs_img_hash_diff' = VsDiff(f)
    /\ potential_matches' = SetRoundStart(potential_matches, f.sec, ClauseDiff(f))
    /\ IF HookEnabled(dd)
             /\ run_round_start_debug(dd, Image(f), Last(potential_matches')) = "raised"
       THEN pc' = "raised" /\ next_sec' = next_sec
       ELSE pc' = pc /\ next_sec' = JumpTarget(f.sec)
    /\ branch' = "round_start"
    /\ UNCHANGED <<last_vs_sec, vs_clip_frame_imgs>>

\* lines 212-226
RoundStartOn(f) ==
    /\ RoundStartScan(f, debug_dir)
    /\ debug_calls' = IF HookEnabled(debug_dir)
                      THEN [debug_calls EXCEPT !.round_start = @ + 1]
                      ELSE debug_calls
    /\ UNCHANGED <<debug_dir, catalogVars>>

\* lines 217-218, 227-228
NoRoundStartOn(f) ==
    /\ pc = "scan"
    /\ ~Skipped(f.sec)
    /\ InWindow(f.sec)
    /\ ~(ClauseDiff(f) < CLAUSE_IMAGE_HASH_THRESHOLD)
    /\ sec' = f.sec
    /\ vs_img_hash_diff' = VsDiff(f)
    /\ next_sec' = f.sec + SEEK_SECS
    /\ branch' = "no_round_start"
    /\ UNCHANGED <<pc, debugVars, catalogVars, last_vs_sec, vs_clip_frame_imgs,
                   potential_matches>>

\* mutant: the VS test comes first, before the round-start window test
DetectVsOn_first(f) ==
    /\ pc = "scan"
    /\ Len(vs_clip_frame_imgs) < MaxBurst
    /\ ~Skipped(f.sec)
    /\ VsDiff(f) < VS_IMAGE_HASH_THRESHOLD
    /\ sec' = f.sec
    /\ vs_img_hash_diff' = VsDiff(f)
    /\ vs_clip_frame_imgs' = Append(vs_clip_frame_imgs, Image(f))
    /\ next_sec' = f.sec + SEEK_SECS
    /\ branch' = "vs"
    /\ UNCHANGED <<pc, debugVars, catalogVars, last_vs_sec, potential_matches>>

\* lines 212-214, 231-233
DetectVsOn(f) ==
    /\ pc = "scan"
    /\ Len(vs_clip_frame_imgs) < MaxBurst
    /\ ~Skipped(f.sec)
    /\ ~InWindow(f.sec)
    /\ VsDiff(f) < VS_IMAGE_HASH_THRESHOLD
    /\ sec' = f.sec
    /\ vs_img_hash_diff' = VsDiff(f)
    /\ vs_clip_frame_imgs' = Append(vs_clip_frame_imgs, Image(f))
    /\ next_sec' = f.sec + SEEK_SECS
    /\ branch' = "vs"
    /\ UNCHANGED <<pc, debugVars, catalogVars, last_vs_sec, potential_matches>>

\* mutant: the earlier of the two central frames of an even burst
Representative_lowerMiddle(imgs) == imgs[(Len(imgs) + 1) \div 2]

\* line 237
Representative(imgs) == imgs[(Len(imgs) \div 2) + 1]

\* mutant: vs_sec is the timestamp of the representative frame
PotentialMatch_repTime(t, img, lefts, rights) ==
    [vs_sec |-> img.sec,
     vs_clip_frame_img |-> img,
     left_char_key |-> lefts[1][2],
     right_char_key |-> rights[1][2],
     left_hash_diff |-> lefts[1][1],
     right_hash_diff |-> rights[1][1],
     round_start_sec |-> None,
     clause_hash_diff |-> None]

\* lines 252-259
PotentialMatch(t, img, lefts, rights) ==
    [vs_sec |-> t,
     vs_clip_frame_img |-> img,
     left_char_key |-> lefts[1][2],
     right_char_key |-> rights[1][2],
     left_hash_diff |-> lefts[1][1],
     right_hash_diff |-> rights[1][1],
     round_start_sec |-> None,
     clause_hash_diff |-> None]

\* mutant: the record is inserted at the head
AppendMatch_prepend(ms, m) == <<m>> \o ms

\* line 251: potential_matches.append
AppendMatch(ms, m) == Append(ms, m)

\* lines 212-214, 236-268 with args.debug_dir = dd: what the iteration does
\* to the scan state; an exception of the hook ends the program before
\* line 268
CloseBurstScan(f, dd) ==
    /\ pc = "scan"
    /\ Len(potential_matches) < MaxMatches
    /\ ~Skipped(f.sec)
    /\ ~InWindow(f.sec)
    /\ ~(VsDiff(f) < VS_IMAGE_HASH_THRESHOLD)
    /\ vs_clip_frame_imgs # <<>>
    /\ sec' = f.sec
    /\ vs_img_hash_diff' = VsDiff(f)
    /\ LET img == Representative(vs_clip_frame_imgs)
           \* the sorted lists, for every order in which a dict can be iterated
       IN  \E lefts \in {hash_diffs(img.left, items(CHAR_LEFT_HASHES, l)) :
                             l \in Enumerations(DOMAIN CHAR_LEFT_HASHES)},
              rights \in {hash_diffs(img.right, items(CHAR_RIGHT_HASHES, r)) :
                             r \in Enumerations(DOMAIN CHAR_RIGHT_HASHES)} :
              IF lefts = <<>> \/ rights = <<>>
              THEN \* left_hash_diffs[0] / right_hash_diffs[0] raises IndexError
                   /\ pc' = "crashed"
                   /\ UNCHANGED scanVars
              ELSE /\ potential_matches' =
                         AppendMatch(potential_matches,
                                     PotentialMatch(f.sec, img, lefts, rights))
                   /\ last_vs_sec' = f.sec
                   /\ vs_clip_frame_imgs' = <<>>
                   /\ IF HookEnabled(dd)
                            /\ run_potential_match_debug(dd, Last(potential_matches'))
                                  = "raised"
                      THEN pc' = "raised" /\ next_sec' = next_sec
                      ELSE pc' = pc /\ next_sec' = f.sec + SEEK_SECS
    /\ branch' = "potential_match"

\* lines 212-214, 236-268
CloseBurstOn(f) ==
    /\ CloseBurstScan(f, debug_dir)
    /\ debug_calls' = IF HookEnabled(debug_dir) /\ pc' # "crashed"
                      THEN [debug_calls EXCEPT !.potential_match = @ + 1]
                      ELSE debug_calls
    /\ UNCHANGED <<debug_dir, catalogVars>>

\* lines 270-271
IdleOn(f) ==
    /\ pc = "scan"
    /\ ~Skipped(f.sec)
    /\ ~InWindow(f.sec)
    /\ ~(VsDiff(f) < VS_IMAGE_HASH_THRESHOLD)
    /\ vs_clip_frame_imgs = <<>>
    /\ sec' = f.sec
    /\ vs_img_hash_diff' = VsDiff(f)
    /\ next_sec' = f.sec + SEEK_SECS
    /\ branch' = "idle"
    /\ UNCHANGED <<pc, debugVars, catalogVars, last_vs_sec, vs_clip_frame_imgs,
                   potential_matches>>

\* one iteration of the loop of line 209 on frame f
StepOn(f) ==
    \/ SkipFrameOn(f)
    \/ RoundStartOn(f)
    \/ NoRoundStartOn(f)
    \/ DetectVsOn(f)
    \/ CloseBurstOn(f)
    \/ IdleOn(f)

SkipFrame == \E f \in NextFrames : SkipFrameOn(f)
RoundStart == \E f \in NextFrames : RoundStartOn(f)
NoRoundStart == \E f \in NextFrames : NoRoundStartOn(f)
DetectVs == \E f \in NextFrames : DetectVsOn(f)
CloseBurst == \E f \in NextFrames : CloseBurstOn(f)
Idle == \E f \in NextFrames : IdleOn(f)

\* line 273: the frame iterator is exhausted
EndOfStream ==
    /\ pc = "scan"
    /\ pc' = "done"
    /\ branch' = "end"
    /\ UNCHANGED <<debugVars, catalogVars, sec, scanVars, vs_img_hash_diff>>

Next ==
    \/ LoadFail
    \/ LoadCatalog
    \/ SkipFrame
    \/ RoundStart
    \/ NoRoundStart
    \/ DetectVs
    \/ CloseBurst
    \/ Idle
    \/ EndOfStream

Spec == Init /\ [][Next]_vars

\* ------------------------------------------------------------ properties
ExaminedBranches == {"round_start", "no_round_start", "vs", "potential_match", "idle"}

\* the step appended a record
Appended == Len(potential_matches') = Len(potential_matches) + 1

\* C1 as stated: when a burst is closed, the appended match has vs_sec equal
\* to the timestamp of the representative (middle) buffered frame and its
\* round_start_sec is unset.
C1_VsSecIsMiddleFrameTime ==
    (branch = "potential_match" /\ pc = "scan") =>
        /\ Last(potential_matches).vs_sec = Last(potential_matches).vs_clip_frame_img.sec
        /\ Last(potential_matches).round_start_sec = None

\* C1 amended: when a burst is closed, the appended match has vs_sec equal to
\* the timestamp of the frame that closes the burst, which is later than the
\* representative buffered frame, and its round_start_sec is unset.
C1_VsSecIsClosingFrameTime ==
    (branch = "potential_match" /\ pc = "scan") =>
        /\ Last(potential_matches).vs_sec = sec
        /\ Last(potential_matches).vs_clip_frame_img.sec < sec
        /\ Last(potential_matches).round_start_sec = None

C1_Witness ==
    /\ branch = "potential_match"
    /\ pc = "scan"
    /\ Len(potential_matches) = 1
    /\ Last(potential_matches).vs_sec = sec
    /\ Last(potential_matches).vs_clip_frame_img.sec = sec - SKIP_SECS

\* C2: for an examined frame whose clause distance is below the threshold,
\* with a match recorded, the last match's round_start_sec becomes the
\* frame's timestamp if and only if frame.timestamp - last_vs_sec is strictly
\* below ROUND_START_MAX_OFFSET_SECS.
C2_RoundStartWindowStrict ==
    [][\A f \in NextFrames :
          (/\ potential_matches # <<>>
           /\ ~(f.sec < next_sec)
           /\ HashDiff(f.clause, CLAUSE_IMAGE_HASH) < CLAUSE_IMAGE_HASH_THRESHOLD
           /\ f.sec = sec'
           /\ StepOn(f))
          => ((Last(potential_matches').round_start_sec = f.sec)
                <=> (f.sec - last_vs_sec < ROUND_START_MAX_OFFSET_SECS))]_vars

C2_Witness ==
    /\ branch = "round_start"
    /\ sec - last_vs_sec = ROUND_START_MAX_OFFSET_SECS - SEEK_SECS
    /\ Last(potential_matches).round_start_sec = sec

\* C3: when an examined frame passes the round-start check, the last match
\* gets round_start_sec equal to the frame's timestamp and clause_hash_diff
\* equal to the frame's measured distance, and no match is added or removed.
C3_RoundStartSetsLastMatch ==
    [][\A f \in NextFrames :
          (/\ potential_matches # <<>>
           /\ ~(f.sec < next_sec)
           /\ f.sec - last_vs_sec < ROUND_START_MAX_OFFSET_SECS
           /\ HashDiff(f.clause, CLAUSE_IMAGE_HASH) < CLAUSE_IMAGE_HASH_THRESHOLD
           /\ f.sec = sec'
           /\ StepOn(f))
          => (/\ Len(potential_matches') = Len(potential_matches)
              /\ Last(potential_matches').round_start_sec = f.sec
              /\ Last(potential_matches').clause_hash_diff
                    = HashDiff(f.clause, CLAUSE_IMAGE_HASH))]_vars

C3_Witness ==
    /\ branch = "round_start"
    /\ Len(potential_matches) = 2
    /\ potential_matches[2].round_start_sec = sec
    /\ potential_matches[2].clause_hash_diff = CLAUSE_IMAGE_HASH_THRESHOLD - 1
    /\ potential_matches[1].round_start_sec = None

\* C4: every match has round_start_sec unset or round_start_sec >= vs_sec.
C4_RoundStartNotBeforeVs ==
    \A i \in 1..Len(potential_matches) :
        \/ potential_matches[i].round_start_sec = None
        \/ potential_matches[i].round_start_sec >= potential_matches[i].vs_sec

C4_Witness ==
    \E i \in 1..Len(potential_matches) :
        /\ potential_matches[i].round_start_sec # None
        /\ potential_matches[i].round_start_sec = potential_matches[i].vs_sec + SKIP_SECS

\* C5: next_sec never decreases, whichever branch handles the frame.
C5_NextSecMonotonic == [][next_sec' >= next_sec]_vars

C5_Witness ==
    /\ branch = "skip"
    /\ sec > last_vs_sec
    /\ next_sec = last_vs_sec + ROUND_START_MAX_OFFSET_SECS
    /\ next_sec > sec + SEEK_SECS

\* C6: potential_matches is append-only and ordered: the vs_sec values ascend
\* in list order, no record is removed or moved, and of a recorded match only
\* the two optional fields change.
C6_AppendOnlyOrdered ==
    [][/\ Len(potential_matches') >= Len(potential_matches)
       /\ \A i \in 1..Len(potential_matches) :
             [potential_matches'[i] EXCEPT !.round_start_sec = None, !.clause_hash_diff = None]
               = [potential_matches[i] EXCEPT !.round_start_sec = None, !.clause_hash_diff = None]
       /\ \A i \in 1..(Len(potential_matches') - 1) :
             potential_matches'[i].vs_sec < potential_matches'[i + 1].vs_sec]_vars

C6_Witness ==
    /\ Len(potential_matches) = 2
    /\ potential_matches[1].vs_sec < potential_matches[2].vs_sec
    /\ potential_matches[1].round_start_sec # None

\* C7: for every match, round_start_sec and clause_hash_diff are both set or
\* both unset.
C7_OptionalPairTogether ==
    \A i \in 1..Len(potential_matches) :
        (potential_matches[i].round_start_sec = None)
            <=> (potential_matches[i].clause_hash_diff = None)

C7_Witness ==
    \E i \in 1..Len(potential_matches) :
        /\ potential_matches[i].round_start_sec # None
        /\ potential_matches[i].clause_hash_diff = 0

\* C8: with non-empty rosters, closing a burst always records a match, and
\* each recorded key is in its roster with a diff that is the distance of the
\* representative's crop to that entry and the minimum over the roster; no
\* distance is too large to be returned.
MinOfRoster(key, diff, crop, roster) ==
    /\ key \in DOMAIN roster
    /\ diff = HashDiff(crop, roster[key])
    /\ \A k \in DOMAIN roster : diff <= HashDiff(crop, roster[k])

C8_ClassifierReturnsMinimum ==
    /\ \A i \in 1..Len(potential_matches) :
          LET m == potential_matches[i]
          IN  /\ MinOfRoster(m.left_char_key, m.left_hash_diff,
                             m.vs_clip_frame_img.left, CHAR_LEFT_HASHES)
              /\ MinOfRoster(m.right_char_key, m.right_hash_diff,
                             m.vs_clip_frame_img.right, CHAR_RIGHT_HASHES)
    /\ (branch = "potential_match" /\ CHAR_LEFT_HASHES # <<>> /\ CHAR_RIGHT_HASHES # <<>>)
          => (pc # "crashed" /\ potential_matches # <<>> /\ Last(potential_matches).vs_sec = sec)

C8_Witness ==
    /\ branch = "potential_match"
    /\ DOMAIN CHAR_LEFT_HASHES = Keys
    /\ potential_matches # <<>>
    /\ Last(potential_matches).left_hash_diff >= CHAR_IMAGE_HASH_THRESHOLD
    /\ Last(potential_matches).left_char_key = 2

\* C9: the record appended when a burst is closed is the same whatever the
\* orders in which the two rosters are enumerated, also when several entries
\* share the minimum distance.
C9_EnumerationOrderIrrelevant ==
    [][Appended =>
         LET m == Last(potential_matches')
             img == Representative(vs_clip_frame_imgs)
         IN  /\ m.vs_clip_frame_img = img
             /\ \A l \in Enumerations(DOMAIN CHAR_LEFT_HASHES) :
                   LET diffs == hash_diffs(img.left, items(CHAR_LEFT_HASHES, l))
                   IN  m.left_hash_diff = diffs[1][1] /\ m.left_char_key = diffs[1][2]
             /\ \A r \in Enumerations(DOMAIN CHAR_RIGHT_HASHES) :
                   LET diffs == hash_diffs(img.right, items(CHAR_RIGHT_HASHES, r))
                   IN  m.right_hash_diff = diffs[1][1] /\ m.right_char_key = diffs[1][2]]_vars

C9_Witness ==
    /\ branch = "potential_match"
    /\ potential_matches # <<>>
    /\ DOMAIN CHAR_LEFT_HASHES = Keys
    /\ LET m == Last(potential_matches)
       IN  /\ HashDiff(m.vs_clip_frame_img.left, CHAR_LEFT_HASHES[1])
                = HashDiff(m.vs_clip_frame_img.left, CHAR_LEFT_HASHES[2])
           /\ m.left_char_key = 1

\* C10 as stated: with a marker asset missing or a roster empty, the program
\* aborts before any frame is processed, so no frame is ever examined.
CatalogIncomplete ==
    ~dataDir.vs \/ ~dataDir.clause \/ ~dataDir.chars
        \/ dataDir.left = {} \/ dataDir.right = {}

C10_AbortsBeforeAnyFrame == CatalogIncomplete => branch \notin ExaminedBranches

\* C11 as stated: every VS burst yields a match record by the time the scan
\* ends, so when the frame iterator is exhausted no buffered VS frame is left
\* without its record.
C11_EveryBurstRecorded == pc = "done" => vs_clip_frame_imgs = <<>>

\* the scan-state effect of one iteration on frame f with the hook disabled
HookFreeStepOn(f) ==
    \/ SkipFrameOn(f)
    \/ RoundStartScan(f, NoDebugDir)
    \/ NoRoundStartOn(f)
    \/ DetectVsOn(f)
    \/ CloseBurstScan(f, NoDebugDir)
    \/ IdleOn(f)

\* C12 as stated: whatever --debug-dir is, every iteration chooses the branch
\* and updates next_sec, last_vs_sec, the buffer and the records exactly as it
\* does with the hook disabled, and with the hook enabled each hook is called
\* once per appended record and once per round-start confirmation.
C12_HookTransparent ==
    [][\A f \in Frames(sec') :
          StepOn(f) =>
              /\ HookFreeStepOn(f)
              /\ debug_calls'.potential_match = debug_calls.potential_match +
                    (IF HookEnabled(debug_dir) /\ Appended THEN 1 ELSE 0)
              /\ debug_calls'.round_start = debug_calls.round_start +
                    (IF HookEnabled(debug_dir) /\ branch' = "round_start" THEN 1 ELSE 0)]_vars

\* C13 as stated: the constants the scan runs with satisfy
\* SEEK_SECS < ROUND_START_MAX_OFFSET_SECS <= SKIP_SECS.
C13_WindowWithinSkip ==
    pc # "load" =>
        SEEK_SECS < ROUND_START_MAX_OFFSET_SECS /\ ROUND_START_MAX_OFFSET_SECS <= SKIP_SECS

\* C13 amended: the constants the scan runs with satisfy
\* SEEK_SECS < SKIP_SECS <= ROUND_START_MAX_OFFSET_SECS: the coarse jump is
\* longer than the fine step and no longer than the round-start window.
C13_SkipWithinWindow ==
    pc # "load" =>
        SEEK_SECS < SKIP_SECS /\ SKIP_SECS <= ROUND_START_MAX_OFFSET_SECS

\* a confirmation early in the window: the window's end lies beyond the
\* coarse jump and decides next_sec
C13_Witness ==
    /\ branch = "round_start"
    /\ pc = "scan"
    /\ next_sec = last_vs_sec + ROUND_START_MAX_OFFSET_SECS
    /\ next_sec > sec + SKIP_SECS

\* C14: an examined frame is handled by exactly one branch, chosen in the
\* order round-start check, VS collection, burst closure, idle; a frame inside
\* the round-start window of an existing match is handled by the round-start
\* check alone and is neither buffered nor used to close a burst, even when it
\* matches the VS marker.
C14_OneBranchByPriority ==
    [][(pc = "scan" /\ pc' # "done" /\ ~(sec' < next_sec))
          => IF potential_matches # <<>>
                   /\ sec' - last_vs_sec < ROUND_START_MAX_OFFSET_SECS
             THEN /\ branch' \in {"round_start", "no_round_start"}
                  /\ vs_clip_frame_imgs' = vs_clip_frame_imgs
                  /\ Len(potential_matches') = Len(potential_matches)
                  /\ last_vs_sec' = last_vs_sec
             ELSE IF vs_img_hash_diff' < VS_IMAGE_HASH_THRESHOLD
             THEN /\ branch' = "vs"
                  /\ Len(vs_clip_frame_imgs') = Len(vs_clip_frame_imgs) + 1
                  /\ potential_matches' = potential_matches
                  /\ last_vs_sec' = last_vs_sec
             ELSE IF vs_clip_frame_imgs # <<>>
             THEN /\ branch' = "potential_match"
                  /\ \/ pc' = "crashed" /\ potential_matches' = potential_matches
                     \/ /\ Len(potential_matches') = Len(potential_matches) + 1
                        /\ vs_clip_frame_imgs' = <<>>
             ELSE /\ branch' = "idle"
                  /\ vs_clip_frame_imgs' = vs_clip_frame_imgs
                  /\ potential_matches' = potential_matches
                  /\ last_vs_sec' = last_vs_sec]_vars

\* a frame matching the VS marker inside the window went through the
\* round-start check only
C14_Witness ==
    /\ branch = "no_round_start"
    /\ vs_img_hash_diff # None
    /\ vs_img_hash_diff < VS_IMAGE_HASH_THRESHOLD
    /\ vs_clip_frame_imgs = <<>>
    /\ Len(potential_matches) = 1

Max(a, b) == IF a >= b THEN a ELSE b

\* C15: an iteration on a frame with timestamp t below next_sec changes no
\* scan state; any other iteration that completes leaves next_sec equal to
\* t + SEEK_SECS, except a round-start confirmation, which leaves it equal to
\* max(last_vs_sec + ROUND_START_MAX_OFFSET_SECS, t + SKIP_SECS).
C15_NextSecAfterFrame ==
    [][(pc = "scan" /\ pc' # "done")
          => IF sec' < next_sec
             THEN UNCHANGED scanVars
             ELSE pc' = "scan"
                    => next_sec' =
                          IF branch' = "round_start"
                          THEN Max(last_vs_sec' + ROUND_START_MAX_OFFSET_SECS, sec' + SKIP_SECS)
                          ELSE sec' + SEEK_SECS]_vars

\* a confirmation late in the window: the coarse jump passes the window's end
C15_Witness ==
    /\ branch = "round_start"
    /\ pc = "scan"
    /\ next_sec = sec + SKIP_SECS
    /\ next_sec > last_vs_sec + ROUND_START_MAX_OFFSET_SECS

\* C16: when a burst of n >= 1 buffered frames is closed, the record keeps the
\* buffered frame at 0-based index floor(n/2) of the buffering order (the
\* later of the two central frames when n is even), both character guesses
\* are the nearest roster entries of that frame's crops, the frame is one
\* buffered before the closing frame, and the buffer is empty afterwards.
C16_RepresentativeIsMiddle ==
    [][Appended =>
         LET n == Len(vs_clip_frame_imgs)
             m == Last(potential_matches')
         IN  /\ n >= 1
             /\ m.vs_clip_frame_img = vs_clip_frame_imgs[(n \div 2) + 1]
             /\ m.vs_clip_frame_img.idx = n \div 2
             /\ m.vs_clip_frame_img.sec < sec'
             /\ MinOfRoster(m.left_char_key, m.left_hash_diff,
                            vs_clip_frame_imgs[(n \div 2) + 1].left, CHAR_LEFT_HASHES)
             /\ MinOfRoster(m.right_char_key, m.right_hash_diff,
                            vs_clip_frame_imgs[(n \div 2) + 1].right, CHAR_RIGHT_HASHES)
             /\ vs_clip_frame_imgs' = <<>>]_vars

\* a burst of two frames was closed: the representative is the second one,
\* buffered one gap before the closing frame
C16_Witness ==
    /\ branch = "potential_match"
    /\ pc = "scan"
    /\ vs_clip_frame_imgs = <<>>
    /\ Last(potential_matches).vs_clip_frame_img.idx = 1
    /\ sec - Last(potential_matches).vs_clip_frame_img.sec <= SKIP_SECS

\* C17: a step changes no record but the last one: every earlier record,
\* also one whose round_start_sec is still unset, stays as it is, and of the
\* last record vs_sec, the kept frame, the character keys and the character
\* hash diffs never change once the record exists.
C17_OnlyLastMatchModified ==
    [][/\ \A i \in 1..(Len(potential_matches) - 1) :
             potential_matches'[i] = potential_matches[i]
       /\ potential_matches # <<>> =>
             LET old == Last(potential_matches)
                 new == potential_matches'[Len(potential_matches)]
             IN  /\ new.vs_sec = old.vs_sec
                 /\ new.vs_clip_frame_img = old.vs_clip_frame_img
                 /\ new.left_char_key = old.left_char_key
                 /\ new.right_char_key = old.right_char_key
                 /\ new.left_hash_diff = old.left_hash_diff
                 /\ new.right_hash_diff = old.right_hash_diff]_vars

\* the second match was confirmed while the first one is still open
C17_Witness ==
    /\ Len(potential_matches) = 2
    /\ potential_matches[1].round_start_sec = None
    /\ potential_matches[1].clause_hash_diff = None
    /\ potential_matches[2].round_start_sec # None
    /\ potential_matches[2].clause_hash_diff = 0

\* C18: round_start_sec is written at most once per record: a set
\* round_start_sec / clause_hash_diff is never overwritten, a completed
\* confirmation leaves next_sec at or beyond
\* last_vs_sec + ROUND_START_MAX_OFFSET_SECS, and while the last record has
\* its round start no step is a confirmation.
C18_RoundStartWrittenOnce ==
    [][/\ \A i \in 1..Len(potential_matches) :
             potential_matches[i].round_start_sec # None
                => /\ potential_matches'[i].round_start_sec
                         = potential_matches[i].round_start_sec
                   /\ potential_matches'[i].clause_hash_diff
                         = potential_matches[i].clause_hash_diff
       /\ (branch' = "round_start" /\ pc' = "scan")
             => next_sec' >= last_vs_sec' + ROUND_START_MAX_OFFSET_SECS
       /\ (potential_matches # <<>> /\ Last(potential_matches).round_start_sec # None)
             => branch' # "round_start"]_vars

\* after a confirmation a later frame inside the window was skipped
C18_Witness ==
    /\ branch = "skip"
    /\ potential_matches # <<>>
    /\ Last(potential_matches).round_start_sec # None
    /\ Last(potential_matches).round_start_sec < sec
    /\ sec - last_vs_sec < ROUND_START_MAX_OFFSET_SECS

\* C19: whenever a record exists, last_vs_sec equals the vs_sec of the last
\* record, and every record with round_start_sec set has
\* round_start_sec - vs_sec < ROUND_START_MAX_OFFSET_SECS.
C19_WindowFromLastMatch ==
    /\ potential_matches # <<>> => last_vs_sec = Last(potential_matches).vs_sec
    /\ \A i \in 1..Len(potential_matches) :
          potential_matches[i].round_start_sec # None
             => potential_matches[i].round_start_sec - potential_matches[i].vs_sec
                   < ROUND_START_MAX_OFFSET_SECS

\* a record confirmed on the last tick of its window
C19_Witness ==
    /\ potential_matches # <<>>
    /\ last_vs_sec = Last(potential_matches).vs_sec
    /\ Last(potential_matches).round_start_sec
          = Last(potential_matches).vs_sec + ROUND_START_MAX_OFFSET_SECS - SEEK_SECS

\* C20: consecutive records have vs_sec values at least
\* ROUND_START_MAX_OFFSET_SECS apart; while a record exists and the frame is
\* inside its round-start window the buffer is empty, and an iteration on
\* such a frame neither buffers it nor appends a record, whatever the frame
\* shows.
C20_MatchesSpacedByWindow ==
    [][/\ \A i \in 1..(Len(potential_matches') - 1) :
             potential_matches'[i + 1].vs_sec - potential_matches'[i].vs_sec
                >= ROUND_START_MAX_OFFSET_SECS
       /\ (potential_matches' # <<>> /\ sec' - last_vs_sec' < ROUND_START_MAX_OFFSET_SECS)
             => vs_clip_frame_imgs' = <<>>
       /\ (/\ pc = "scan"
           /\ pc' # "done"
           /\ potential_matches # <<>>
           /\ sec' - last_vs_sec < ROUND_START_MAX_OFFSET_SECS)
             => /\ vs_clip_frame_imgs' = vs_clip_frame_imgs
                /\ Len(potential_matches') = Len(potential_matches)]_vars

\* the second burst began on the first tick after the first record's window
\* and was closed one gap later
C20_Witness ==
    /\ Len(potential_matches) = 2
    /\ potential_matches[2].vs_clip_frame_img.sec
          = potential_matches[1].vs_sec + ROUND_START_MAX_OFFSET_SECS
    /\ potential_matches[2].vs_sec - potential_matches[1].vs_sec
          = ROUND_START_MAX_OFFSET_SECS + SKIP_SECS - SEEK_SECS
====
